---- MODULE Spec2Model ----
(***************************************************************************)
(* State-machine model of the MOFA2 inference engine:                      *)
(*   src/mofapy2/core/BayesNet.py   (BayesNet, StochasticBayesNet)          *)
(*   src/biofam/core/nodes/Tau_nodes.py (TauD_Node)                        *)
(*                                                                         *)
(* Floating-point cells are modelled as <<v>> (a number, here an integer   *)
(* in the unit of the quantity) or NaN (the empty tuple).  Python's None   *)
(* is the empty tuple as well.  Dictionaries are functions whose DOMAIN is *)
(* the set of keys, so that "key in dict" is a test on the DOMAIN.         *)
(***************************************************************************)
EXTENDS Integers, Sequences, FiniteSets, TLC

VARIABLES
    pc,                \* position of the caller / of iterate's loop
    train_opts,        \* the dictionary handed to setTrainOptions
    options,           \* self.options
    dim,               \* self.dim
    factors,           \* per node: the labels of its factor-indexed columns
    rf_arg,            \* per node: the argument of its removeFactors call in iteration i
    precomputed,       \* per node: number of precompute calls
    TauTrick,          \* the TauTrick flag of the Y sub-nodes
    i,                 \* loop variable of iterate
    sched_pos,         \* position in options['schedule'] within iteration i
    updated,           \* nodes whose update() was called in iteration i, in order
    elbo,              \* the ELBO DataFrame: row -> column -> cell
    number_factors,    \* the number_factors array
    iter_time,         \* the iter_time array (Fl(1) stands for a measured time)
    convergence_token,
    converged,
    trained,           \* self.trained
    train_stats,       \* self.train_stats
    r2_in,             \* the explained variances the last pruning step measured
    delta_elbo,        \* the delta_elbo of the last checkpoint
    n_checks,          \* number of assess_convergence calls made so far
    all_below,         \* every assess_convergence call so far was below threshold
    token0,            \* the counter value before the first assess_convergence call
    registered,        \* the keys of self.nodes besides those of NodeNames
    shuffled_ix,       \* self.shuffled_ix (None: the attribute does not exist)
    mini_batch,        \* per index-aware node: the argument of its last define_mini_batch
    ix,                \* the ix of StochasticBayesNet.iterate
    ro,                \* the ro of StochasticBayesNet.iterate
    update_args,       \* the (ix, ro) of the update() calls of iteration i, in order
    epoch_log,         \* the calls of sample_mini_batch_no_replace in the current epoch
    tau,               \* the TauD_Node: P, Q and Qa_pre (None: not constructed)
    blanket,           \* the state of the nodes of its Markov blanket: Y, W and Z
    tau_calls          \* number of TauD_Node.updateParameters calls made so far

\* the state of StochasticBayesNet beyond that of BayesNet
sto_vars == <<registered, shuffled_ix, mini_batch, ix, ro, update_args, epoch_log>>

\* the TauD_Node and its Markov blanket
tau_vars == <<tau, blanket, tau_calls>>

vars == <<pc, train_opts, options, dim, factors, rf_arg, precomputed, TauTrick,
          i, sched_pos, updated, elbo, number_factors, iter_time,
          convergence_token, converged, trained, train_stats, r2_in,
          delta_elbo, n_checks, all_below, token0, sto_vars, tau_vars>>

-----------------------------------------------------------------------------
(* Bounds of the model *)
MaxIter == 5       \* largest options['maxiter']
MaxK == 2          \* largest initial dim['K']
MaxG == 2          \* largest dim['G'] (specification SpecDrop)
MaxChecks == 6     \* largest number of assess_convergence calls (specification SpecConv)
MaxN == 7          \* largest dim['N'] (specification SpecStoch)
MaxShuffle == 3    \* largest N whose permutations are all drawn
MaxTauUpdates == 2 \* largest number of TauD_Node.updateParameters calls (specification SpecTau)

-----------------------------------------------------------------------------
(* Values *)
None == <<>>
NaN == <<>>
Fl(x) == <<x>>
FAdd(a, b) == IF a = NaN \/ b = NaN THEN NaN ELSE <<a[1] + b[1]>>
FSub(a, b) == IF a = NaN \/ b = NaN THEN NaN ELSE <<a[1] - b[1]>>
Abs(x) == IF x < 0 THEN -x ELSE x

\* nans(n): an array of n NaN cells, indexed from 0 as in Python
nans(n) == [r \in 0..(n-1) |-> NaN]
\* a[:n] for n >= 0
Truncate(a, n) == [r \in {x \in DOMAIN a : x < n} |-> a[r]]
Length(a) == Cardinality(DOMAIN a)

-----------------------------------------------------------------------------
(* Python floats (IEEE-754 binary64), as far as lines 380-390 use them.     *)
(* A natural number is a sequence of bits, least significant first, with no *)
(* leading zero.  A non-negative double is [m |-> bits, e |-> exponent] of  *)
(* value m * 2^e, m having 53 bits; zero has m = <<>>.                      *)
Bit(a, k) == IF k <= Len(a) THEN a[k] ELSE 0
Max(x, y) == IF x >= y THEN x ELSE y

RECURSIVE BTrim(_)
BTrim(a) ==
    IF a = <<>> THEN a
    ELSE IF a[Len(a)] = 1 THEN a ELSE BTrim(SubSeq(a, 1, Len(a) - 1))

RECURSIVE BFromNat(_)
BFromNat(n) == IF n = 0 THEN <<>> ELSE <<n % 2>> \o BFromNat(n \div 2)

RECURSIVE BToNat(_)
BToNat(a) == IF a = <<>> THEN 0 ELSE a[1] + 2 * BToNat(Tail(a))

RECURSIVE BAddC(_, _, _, _)
BAddC(a, b, k, c) ==
    IF k > Max(Len(a), Len(b)) THEN (IF c = 1 THEN <<1>> ELSE <<>>)
    ELSE LET s == Bit(a, k) + Bit(b, k) + c
         IN <<s % 2>> \o BAddC(a, b, k + 1, s \div 2)
BAdd(a, b) == BAddC(a, b, 1, 0)

\* a - b for a >= b
RECURSIVE BSubB(_, _, _, _)
BSubB(a, b, k, borrow) ==
    IF k > Len(a) THEN <<>>
    ELSE LET d == Bit(a, k) - Bit(b, k) - borrow
         IN <<d % 2>> \o BSubB(a, b, k + 1, IF d < 0 THEN 1 ELSE 0)
BSub(a, b) == BTrim(BSubB(a, b, 1, 0))

RECURSIVE BLessFrom(_, _, _)
BLessFrom(a, b, k) ==
    IF k = 0 THEN FALSE
    ELSE IF a[k] # b[k] THEN a[k] < b[k] ELSE BLessFrom(a, b, k - 1)
BLess(a, b) == IF Len(a) # Len(b) THEN Len(a) < Len(b) ELSE BLessFrom(a, b, Len(a))

BShl(a, k) == IF a = <<>> THEN a ELSE [j \in 1..k |-> 0] \o a
BShr(a, k) == SubSeq(a, k + 1, Len(a))

RECURSIVE BMul(_, _)
BMul(a, b) ==
    IF b = <<>> THEN <<>>
    ELSE LET r == BShl(BMul(a, Tail(b)), 1)
         IN IF b[1] = 1 THEN BAdd(r, a) ELSE r

\* long division, one step: bit k of a is brought down to the remainder
BDivBit(a, b, k, s) ==
    LET r1 == BTrim(<<a[k]>> \o s.r)
    IN IF BLess(r1, b) THEN [q |-> <<0>> \o s.q, r |-> r1]
       ELSE [q |-> <<1>> \o s.q, r |-> BSub(r1, b)]

\* the steps for bits hi, hi-1, ..., lo of a, in this order
RECURSIVE BDivRange(_, _, _, _, _)
BDivRange(a, b, hi, lo, s) ==
    IF hi = lo THEN BDivBit(a, b, hi, s)
    ELSE LET mid == (hi + lo + 1) \div 2
             s1 == BDivRange(a, b, hi, mid, s)
         IN \* the test has s1 evaluated before the steps that follow it
            IF s1.r = <<>> THEN BDivRange(a, b, mid - 1, lo, s1)
            ELSE BDivRange(a, b, mid - 1, lo, s1)

\* quotient and remainder of a > 0 by b > 0
BDivMod(a, b) ==
    LET s == BDivRange(a, b, Len(a), 1, [q |-> <<>>, r |-> <<>>])
    IN [q |-> BTrim(s.q), r |-> s.r]

\* the double nearest to (M + f) * 2^e, ties to even; 0 < f < 1 if sticky, else
\* f = 0 (an M of at most 53 bits is exact and comes with no sticky part)
DRound(M, e, sticky) ==
    IF M = <<>> THEN [m |-> <<>>, e |-> 0]
    ELSE IF Len(M) <= 53 THEN [m |-> BShl(M, 53 - Len(M)), e |-> e - (53 - Len(M))]
    ELSE LET sh == Len(M) - 53
             top == BShr(M, sh)
             rest == sticky \/ \E j \in 1..(sh - 1) : M[j] = 1
             up == M[sh] = 1 /\ (rest \/ top[1] = 1)
             m1 == IF up THEN BAdd(top, <<1>>) ELSE top
         IN IF Len(m1) > 53 THEN [m |-> BShr(m1, 1), e |-> e + sh + 1]
            ELSE [m |-> m1, e |-> e + sh]

\* the float literal or quotient p/q of two small positive integers
DFromRatio(p, q) ==
    LET d == BDivMod(BShl(BFromNat(p), 64), BFromNat(q))
    IN DRound(d.q, -64, d.r # <<>>)

\* x * n for a double x and an int n (n converts exactly)
DMulNat(x, n) == DRound(BMul(x.m, BFromNat(n)), x.e, FALSE)

\* 1. / x for a double x > 0
DRecip(x) ==
    LET d == BDivMod(BShl(<<1>>, 108), x.m)
    IN DRound(d.q, (-108) - x.e, d.r # <<>>)

\* int(x) for a double x >= 0
DInt(x) == IF x.e >= 0 THEN BToNat(BShl(x.m, x.e)) ELSE BToNat(BShr(x.m, -x.e))

\* math.ceil(x) for a double x >= 0
DCeil(x) ==
    DInt(x) + (IF x.e < 0 /\ \E j \in 1..(-x.e) : Bit(x.m, j) = 1 THEN 1 ELSE 0)

\* round(x) for a double x >= 0: the nearest int, a tie going to the even one
DRoundInt(x) ==
    LET f == DInt(x)
        twice == DMulNat(x, 2)
    IN IF DInt(twice) % 2 = 0 THEN f
       ELSE IF DCeil(twice) = DInt(twice) /\ f % 2 = 0 THEN f ELSE f + 1

-----------------------------------------------------------------------------
(* The node registry (self.nodes) *)
NodeNames == <<"Y", "W", "Z", "ThetaW", "Tau">>
Nodes == {NodeNames[n] : n \in DOMAIN NodeNames}
\* isinstance(self.nodes[node], Variational_Node)
IsVariational(node) == node \in {"Y", "W", "Z", "Tau"}
getVariationalNodes == SelectSeq(NodeNames, IsVariational)
Schedule == <<"Z", "ThetaW", "Tau">>

\* the values node.calculateELBO() can return, per node
NodeElboVals(node) ==
    CASE node = "Y" -> {-300000000}
      [] node = "W" -> {-5}
      [] node = "Z" -> {-2, -1}
      [] OTHER -> {0}
ElboOracle == {v \in [{getVariationalNodes[n] : n \in DOMAIN getVariationalNodes} -> {-300000000, -5, -2, -1, 0}] :
                  \A node \in DOMAIN v : v[node] \in NodeElboVals(node)}

\* the values 1 - Res_k/SS can take, in the unit of min_r2
R2Vals == {1, 2}

-----------------------------------------------------------------------------
(* BayesNet.setTrainOptions *)
AssertedKeys == {"maxiter", "start_drop", "freq_drop", "verbose", "quiet", "tolerance",
                 "convergence_mode", "forceiter", "schedule", "start_sparsity",
                 "gpu_mode", "start_elbo"}

\* the asserts of setTrainOptions all pass
setTrainOptionsAccepts(opts) == \A key \in AssertedKeys : key \in DOMAIN opts

-----------------------------------------------------------------------------
(* BayesNet.calculateELBO: vals[node] is what self.nodes[node].calculateELBO() returns *)
ElboColumns == {getVariationalNodes[n] : n \in DOMAIN getVariationalNodes} \cup {"total"}

\* mutant: the total is overwritten (=) instead of accumulated (+=)
RECURSIVE calculateELBOLoop_overwrite(_, _, _)
calculateELBOLoop_overwrite(nodes, vals, series) ==
    IF nodes = <<>> THEN series
    ELSE LET node == Head(nodes)
             s1 == [series EXCEPT ![node] = Fl(vals[node])]
             s2 == [s1 EXCEPT !["total"] = s1[node]]
         IN calculateELBOLoop_overwrite(Tail(nodes), vals, s2)

RECURSIVE calculateELBOLoop(_, _, _)
calculateELBOLoop(nodes, vals, series) ==
    IF nodes = <<>> THEN series
    ELSE LET node == Head(nodes)
             s1 == [series EXCEPT ![node] = Fl(vals[node])]
             s2 == [s1 EXCEPT !["total"] = FAdd(s1["total"], s1[node])]
         IN calculateELBOLoop(Tail(nodes), vals, s2)

calculateELBO(vals) ==
    calculateELBOLoop(getVariationalNodes, vals, [c \in ElboColumns |-> Fl(0)])

-----------------------------------------------------------------------------
(* BayesNet.assess_convergence *)
ConvergenceModes == {"fast", "medium", "slow"}

\* 1 / convergence_threshold
FastThresholdInv == 100000
MediumThresholdInv == 1000000
SlowThresholdInv == 10000000
ThresholdInv(mode) ==
    CASE mode = "fast" -> FastThresholdInv
      [] mode = "medium" -> MediumThresholdInv
      [] mode = "slow" -> SlowThresholdInv

\* 100*abs(delta_elbo/first_elbo) < convergence_threshold, on numpy floats: a zero
\* first_elbo gives inf or nan, and no comparison with them is true.
\* For integers d, f and C >= 1:  C*|d| < |f|  iff  |d| <= (|f| - 1) \div C.
BelowThreshold(delta, first, mode) ==
    /\ delta # NaN
    /\ first # NaN
    /\ first[1] # 0
    /\ Abs(delta[1]) <= (Abs(first[1]) - 1) \div (100 * ThresholdInv(mode))

\* mutant: convergence is declared when the counter reaches 6
assess_convergence_six(delta, first, token, mode) ==
    IF BelowThreshold(delta, first, mode)
    THEN [token |-> token + 1, converged |-> (token + 1 = 6)]
    ELSE [token |-> 1, converged |-> FALSE]

\* mutant: a check that is not below the threshold leaves the counter as it is
assess_convergence_noreset(delta, first, token, mode) ==
    IF BelowThreshold(delta, first, mode)
    THEN [token |-> token + 1, converged |-> (token + 1 = 5)]
    ELSE [token |-> token, converged |-> FALSE]

\* the path of assess_convergence that returns (mode recognised)
assess_convergence(delta, first, token, mode) ==
    IF BelowThreshold(delta, first, mode)
    THEN [token |-> token + 1, converged |-> (token + 1 = 5)]
    ELSE [token |-> 1, converged |-> FALSE]

-----------------------------------------------------------------------------
(* BayesNet.calculate_variance_explained.                                  *)
(* val[<<g,m,k>>] is the value 1 - Res_k/SS computed for group g, view m,  *)
(* factor k.  r2 = [zeros(M,K)] * G is a list of G references; heap maps   *)
(* each referenced array object to its contents.                           *)
r2_alloc(d) == [refs |-> [g \in 0..(d.G - 1) |-> 0],
                heap |-> [o \in {0} |-> [mk \in (0..(d.M - 1)) \X (0..(d.K - 1)) |-> 0]]]

RECURSIVE r2_loop(_, _, _, _, _)
r2_loop(n, refs, heap, val, d) ==
    IF n = d.M * d.G * d.K THEN heap
    ELSE LET m == n \div (d.G * d.K)
             g == (n \div d.K) % d.G
             k == n % d.K
         IN r2_loop(n + 1, refs,
                    [heap EXCEPT ![refs[g]][<<m, k>>] = val[<<g, m, k>>]], val, d)

calculate_variance_explained(val, d) ==
    LET a == r2_alloc(d)
        heap == r2_loop(0, a.refs, a.heap, val, d)
    IN [g \in 0..(d.G - 1) |-> heap[a.refs[g]]]

R2Oracle(d) == [(0..(d.G - 1)) \X (0..(d.M - 1)) \X (0..(d.K - 1)) -> R2Vals]

-----------------------------------------------------------------------------
(* BayesNet.removeInactiveFactors *)
\* tmp[g] = where((r2[g] > min_r2).sum(axis=0) == 0)
drop_tmp(r2, min_r2, d, g) ==
    {k \in 0..(d.K - 1) : Cardinality({m \in 0..(d.M - 1) : r2[g][<<m, k>>] > min_r2}) = 0}

\* set.intersection(*map(set, tmp))
drop_candidates(r2, min_r2, d) ==
    {k \in 0..(d.K - 1) : \A g \in 0..(d.G - 1) : k \in drop_tmp(r2, min_r2, d, g)}

\* the lists s.random.choice can leave in drop_dic["min_r2"]
drop_choices(r2, min_r2, d) ==
    LET cand == drop_candidates(r2, min_r2, d)
    IN IF cand = {} THEN {<<>>} ELSE {<<k>> : k \in cand}

\* node.removeFactors(drop): the columns at the (0-based) positions of drop go
RECURSIVE removeFactors(_, _, _)
removeFactors(cols, drop, pos) ==
    IF cols = <<>> THEN <<>>
    ELSE IF \E x \in DOMAIN drop : drop[x] = pos THEN removeFactors(Tail(cols), drop, pos + 1)
         ELSE <<Head(cols)>> \o removeFactors(Tail(cols), drop, pos + 1)

\* the nodes removeInactiveFactors calls removeFactors on
removeFactorsNodes == Nodes

-----------------------------------------------------------------------------
(* The training options *)
TrainOptions(mi, sd, fd, se, ef, ss, fi, cm, mr, q) ==
    [maxiter |-> mi, start_drop |-> sd, freq_drop |-> fd, verbose |-> FALSE,
     quiet |-> q, tolerance |-> 0, convergence_mode |-> cm, forceiter |-> fi,
     schedule |-> Schedule, start_sparsity |-> ss, gpu_mode |-> FALSE,
     start_elbo |-> se, elbofreq |-> ef, drop |-> [min_r2 |-> mr],
     stochastic |-> FALSE, Y_ELBO_TauTrick |-> TRUE]

\* a dictionary without the keys of absent
WithoutKeys(opts, absent) == [key \in (DOMAIN opts) \ absent |-> opts[key]]

\* the nodes that have a define_mini_batch the network calls
IndexAware == {"Y", "Tau", "AlphaZ", "ThetaZ"}

\* the state __init__ leaves, for the options to and the registry Nodes \cup extra;
\* the arrays of iterate do not exist yet
ConstructedWith(to, d, tok, extra) ==
    /\ pc = "constructed"
    /\ registered = extra
    /\ shuffled_ix = None
    /\ mini_batch = [n \in IndexAware |-> None]
    /\ ix = None
    /\ ro = None
    /\ update_args = <<>>
    /\ epoch_log = <<>>
    /\ tau = None
    /\ blanket = None
    /\ tau_calls = 0
    /\ train_opts = to
    /\ options = None
    /\ dim = d
    /\ factors = [n \in Nodes |-> [k \in 1..d.K |-> k - 1]]
    /\ rf_arg = [n \in Nodes |-> None]
    /\ precomputed = [n \in Nodes |-> 0]
    /\ TauTrick \in BOOLEAN
    /\ i = 0
    /\ sched_pos = 1
    /\ updated = <<>>
    /\ elbo = None
    /\ number_factors = None
    /\ iter_time = None
    /\ convergence_token = tok
    /\ converged = FALSE
    /\ trained = FALSE
    /\ train_stats = None
    /\ r2_in = None
    /\ delta_elbo = NaN
    /\ n_checks = 0
    /\ all_below = TRUE
    /\ token0 = tok

Constructed(to, d, tok) == ConstructedWith(to, d, tok, {})

-----------------------------------------------------------------------------
(* BayesNet.setTrainOptions *)
setTrainOptions ==
    /\ pc = "constructed"
    /\ setTrainOptionsAccepts(train_opts)
    /\ options' = train_opts
    /\ pc' = "ready"
    /\ UNCHANGED <<train_opts, dim, factors, rf_arg, precomputed, TauTrick, i, sched_pos,
                   updated, elbo, number_factors, iter_time, convergence_token,
                   converged, trained, train_stats, r2_in, delta_elbo, n_checks,
                   all_below, token0, sto_vars, tau_vars>>

-----------------------------------------------------------------------------
(* BayesNet.iterate, lines 206-215, with BayesNet.precompute *)
iterate_begin ==
    /\ pc = "ready"
    /\ \E vals \in ElboOracle :
         LET mi == options["maxiter"]
             frame == [r \in 0..mi |-> [c \in ElboColumns |-> NaN]]
         IN /\ precomputed' = [n \in Nodes |-> precomputed[n] + 1]
            /\ TauTrick' = options["Y_ELBO_TauTrick"]
            /\ elbo' = [frame EXCEPT ![0] = calculateELBO(vals)]
            /\ number_factors' = [nans(mi + 1) EXCEPT ![0] = Fl(dim.K)]
            /\ iter_time' = [nans(mi + 1) EXCEPT ![0] = Fl(0)]
    /\ converged' = FALSE
    /\ convergence_token' = 1
    /\ token0' = 1
    /\ i' = 1
    /\ pc' = "drop"
    /\ UNCHANGED <<train_opts, options, dim, factors, rf_arg, sched_pos, updated,
                   trained, train_stats, r2_in, delta_elbo, n_checks, all_below, sto_vars, tau_vars>>

-----------------------------------------------------------------------------
(* BayesNet.iterate, lines 220-224, with BayesNet.removeInactiveFactors *)
IsDropIteration == i >= options["start_drop"] /\ i % options["freq_drop"] = 0

\* mutant: the run goes on with no factor left
AllFactorsShutDown_never(K) == K < 0

\* line 176: if self.dim['K']==0
AllFactorsShutDown(K) == K = 0

\* line 224 is inside the branch of line 221
RecordsNumberFactors(dropIteration) == dropIteration

iterate_drop ==
    /\ pc = "drop"
    /\ i < options["maxiter"]
    /\ IsDropIteration => "drop" \in DOMAIN options
    /\ IF IsDropIteration /\ options["drop"]["min_r2"] # None
       THEN \E val \in R2Oracle(dim) :
            \E drop \in drop_choices(calculate_variance_explained(val, dim),
                                     options["drop"]["min_r2"][1], dim) :
              LET K1 == dim.K - Len(drop)
              IN /\ r2_in' = val
                 /\ IF Len(drop) > 0
                    THEN /\ factors' = [n \in Nodes |->
                                IF n \in removeFactorsNodes
                                THEN removeFactors(factors[n], drop, 0) ELSE factors[n]]
                         /\ rf_arg' = [n \in Nodes |->
                                IF n \in removeFactorsNodes THEN drop ELSE rf_arg[n]]
                    ELSE UNCHANGED <<factors, rf_arg>>
                 /\ dim' = [dim EXCEPT !.K = K1]
                 /\ IF AllFactorsShutDown(K1)
                    THEN pc' = "exited" /\ UNCHANGED number_factors
                    ELSE /\ pc' = "update"
                         /\ number_factors' = [number_factors EXCEPT ![i] = Fl(K1)]
       ELSE /\ pc' = "update"
            /\ number_factors' = IF RecordsNumberFactors(IsDropIteration)
                                 THEN [number_factors EXCEPT ![i] = Fl(dim.K)]
                                 ELSE number_factors
            /\ UNCHANGED <<dim, factors, rf_arg, r2_in>>
    /\ UNCHANGED <<train_opts, options, precomputed, TauTrick, i, sched_pos, updated,
                   elbo, iter_time, convergence_token, converged, trained,
                   train_stats, delta_elbo, n_checks, all_below, token0, sto_vars, tau_vars>>

-----------------------------------------------------------------------------
(* BayesNet.iterate, lines 228-231: one pass of the loop over the schedule *)
\* mutant: ThetaZ is updated from the first iteration on
SkipsUpdate_ThetaW_only(node, iter) ==
    node = "ThetaW" /\ iter < options["start_sparsity"]

SkipsUpdate(node, iter) ==
    (node = "ThetaW" \/ node = "ThetaZ") /\ iter < options["start_sparsity"]

iterate_update ==
    /\ pc = "update"
    /\ LET node == options["schedule"][sched_pos]
       IN updated' = IF SkipsUpdate(node, i) THEN updated ELSE Append(updated, node)
    /\ IF sched_pos = Len(options["schedule"])
       THEN pc' = "elbo" /\ sched_pos' = 1
       ELSE pc' = pc /\ sched_pos' = sched_pos + 1
    /\ r2_in' = None
    /\ UNCHANGED <<train_opts, options, dim, factors, rf_arg, precomputed, TauTrick, i,
                   elbo, number_factors, iter_time, convergence_token, converged,
                   trained, train_stats, delta_elbo, n_checks, all_below, token0, sto_vars, tau_vars>>

-----------------------------------------------------------------------------
(* BayesNet.iterate, lines 235-287 *)
IsElboIteration ==
    i >= options["start_elbo"] /\ (i - options["start_elbo"]) % options["elbofreq"] = 0

\* mutant: delta_elbo is taken against the row of the iteration before
PreviousRow_lastIteration == i - 1

\* the row delta_elbo is taken against (lines 241-244)
PreviousRow == IF i = options["start_elbo"] THEN 0 ELSE i - options["elbofreq"]

\* line 249 reads options['stochastic']
ReadsStochastic(delta) == ~options["quiet"] /\ delta # NaN /\ delta[1] < 0

\* line 257
IsAssessed == i > options["start_elbo"] /\ ~options["forceiter"]

\* lines 284-287 and the loop increment; e is the DataFrame so far
iterate_continue(e) ==
    /\ elbo' = e
    /\ iter_time' = [iter_time EXCEPT ![i] = Fl(1)]
    /\ i' = i + 1
    /\ pc' = "drop"
    /\ updated' = <<>>
    /\ rf_arg' = [n \in Nodes |-> None]
    /\ UNCHANGED number_factors

\* mutant: the loop goes on after convergence is declared
iterate_break_goes_on(e) == iterate_continue(e)

\* line 260-261; e is the DataFrame so far
iterate_break(e) ==
    /\ number_factors' = Truncate(number_factors, i)
    /\ elbo' = Truncate(e, i)
    /\ pc' = "finish"
    /\ UNCHANGED <<iter_time, i, updated, rf_arg>>

iterate_elbo ==
    /\ pc = "elbo"
    /\ i >= options["start_elbo"] => "elbofreq" \in DOMAIN options
    /\ IF IsElboIteration
       THEN \E vals \in ElboOracle : \E e \in {[elbo EXCEPT ![i] = calculateELBO(vals)]} :
              LET delta == FSub(e[i]["total"], e[PreviousRow]["total"])
              IN /\ ReadsStochastic(delta) => "stochastic" \in DOMAIN options
                 /\ IsAssessed => options["convergence_mode"] \in ConvergenceModes
                 /\ delta_elbo' = delta
                 /\ IF IsAssessed
                    THEN LET r == assess_convergence(delta, e[0]["total"], convergence_token,
                                                     options["convergence_mode"])
                         IN /\ convergence_token' = r.token
                            /\ converged' = r.converged
                            /\ n_checks' = n_checks + 1
                            /\ all_below' = (all_below /\ BelowThreshold(delta, e[0]["total"],
                                                            options["convergence_mode"]))
                            /\ IF r.converged THEN iterate_break(e) ELSE iterate_continue(e)
                    ELSE /\ iterate_continue(e)
                         /\ UNCHANGED <<convergence_token, converged, n_checks, all_below>>
       ELSE /\ iterate_continue(elbo)
            /\ UNCHANGED <<convergence_token, converged, n_checks, all_below, delta_elbo>>
    /\ UNCHANGED <<train_opts, options, dim, factors, precomputed, TauTrick, sched_pos,
                   trained, train_stats, r2_in, token0, sto_vars, tau_vars>>

-----------------------------------------------------------------------------
(* BayesNet.iterate, lines 290-291 *)
iterate_finish ==
    /\ IF pc = "drop" THEN i >= options["maxiter"] ELSE pc = "finish"
    /\ train_stats' = [time |-> iter_time,
                       number_factors |-> number_factors,
                       elbo |-> [r \in DOMAIN elbo |-> elbo[r]["total"]],
                       elbo_terms |-> [r \in DOMAIN elbo |->
                                         [c \in ElboColumns \ {"total"} |-> elbo[r][c]]]]
    /\ trained' = TRUE
    /\ pc' = "done"
    /\ UNCHANGED <<train_opts, options, dim, factors, rf_arg, precomputed, TauTrick, i,
                   sched_pos, updated, elbo, number_factors, iter_time,
                   convergence_token, converged, r2_in, delta_elbo, n_checks,
                   all_below, token0, sto_vars, tau_vars>>

-----------------------------------------------------------------------------
(* Full-batch training runs with every option key present *)
StartDropVals == {1, 2}
FreqDropVals == {1, 2}
StartElboVals == {0, 1}
ElboFreqVals == {1, 2}
MinR2Vals == {None, Fl(1)}

MainOptions ==
    {TrainOptions(mi, sd, fd, se, ef, ss, fi, cm, mr, FALSE) :
        mi \in 1..MaxIter, sd \in StartDropVals, fd \in FreqDropVals,
        se \in StartElboVals, ef \in ElboFreqVals, ss \in {1},
        fi \in BOOLEAN, cm \in {"medium", "slow"}, mr \in MinR2Vals}

MainDims == {[N |-> 2, M |-> 1, G |-> 1, K |-> k] : k \in 1..MaxK}

Init == \E to \in MainOptions : \E d \in MainDims : Constructed(to, d, 1)

Next ==
    \/ setTrainOptions
    \/ iterate_begin
    \/ iterate_drop
    \/ iterate_update
    \/ iterate_elbo
    \/ iterate_finish

Spec == Init /\ [][Next]_vars

-----------------------------------------------------------------------------
(* Pruning runs: several groups and views, an ELBO checkpoint at the first *)
(* iteration only                                                          *)
DropOptions ==
    {TrainOptions(MaxIter, sd, 1, 1, MaxIter, 1, TRUE, "medium", Fl(1), FALSE) :
        sd \in StartDropVals}

DropDims == {[N |-> 2, M |-> m, G |-> g, K |-> k] :
                m \in {1, 2}, g \in 1..MaxG, k \in 1..(MaxK + 1)}

InitDrop == \E to \in DropOptions : \E d \in DropDims : Constructed(to, d, 1)

SpecDrop == InitDrop /\ [][Next]_vars

-----------------------------------------------------------------------------
(* Runs over schedules with the sparsity nodes ThetaW and ThetaZ, ThetaZ    *)
(* being registered, and several values of start_sparsity                  *)
Schedules == {<<"Z", "ThetaW", "Tau">>, <<"ThetaZ", "W", "ThetaW", "Z">>}
StartSparsityVals == {1, 2, 4}

SchedOptions ==
    {[schedule |-> sch] @@
        TrainOptions(MaxIter, 1, 1, 1, MaxIter, ss, TRUE, "medium", None, FALSE) :
        sch \in Schedules, ss \in StartSparsityVals}

InitSched ==
    \E to \in SchedOptions : \E d \in MainDims : ConstructedWith(to, d, 1, {"ThetaZ"})

SpecSched == InitSched /\ [][Next]_vars

-----------------------------------------------------------------------------
(* Runs over the ELBO checkpoint options start_elbo and elbofreq *)
CheckpointStarts == {0, 1, 2, 3}
CheckpointFreqs == {1, 2, 3}

ElboOptions ==
    {TrainOptions(MaxIter, 1, 1, se, ef, 1, fi, "medium", None, FALSE) :
        se \in CheckpointStarts, ef \in CheckpointFreqs, fi \in BOOLEAN}

InitElbo == \E to \in ElboOptions : \E d \in MainDims : Constructed(to, d, 1)

SpecElbo == InitElbo /\ [][Next]_vars

-----------------------------------------------------------------------------
(* BayesNet.iterate, lines 206-215, in two steps: BayesNet.precompute up to *)
(* line 188, then the ELBO of line 189 and what follows it.  The two steps  *)
(* one after the other are iterate_begin.                                  *)

\* mutant: the first ELBO is computed with the configured flag
ElboTauTrick0_configured == options["Y_ELBO_TauTrick"]

\* line 188
ElboTauTrick0 == FALSE

\* lines 206-212 and 184-188
iterate_precompute_nodes ==
    /\ pc = "ready"
    /\ LET mi == options["maxiter"]
       IN /\ elbo' = [r \in 0..mi |-> [c \in ElboColumns |-> NaN]]
          /\ number_factors' = nans(mi + 1)
          /\ iter_time' = nans(mi + 1)
    /\ converged' = FALSE
    /\ convergence_token' = 1
    /\ token0' = 1
    /\ precomputed' = [n \in Nodes |-> precomputed[n] + 1]
    /\ TauTrick' = ElboTauTrick0
    /\ pc' = "precompute"
    /\ UNCHANGED <<train_opts, options, dim, factors, rf_arg, i, sched_pos, updated,
                   trained, train_stats, r2_in, delta_elbo, n_checks, all_below, sto_vars, tau_vars>>

\* lines 189-190 and 213-217
iterate_precompute_elbo ==
    /\ pc = "precompute"
    /\ \E vals \in ElboOracle : elbo' = [elbo EXCEPT ![0] = calculateELBO(vals)]
    /\ TauTrick' = options["Y_ELBO_TauTrick"]
    /\ number_factors' = [number_factors EXCEPT ![0] = Fl(dim.K)]
    /\ iter_time' = [iter_time EXCEPT ![0] = Fl(0)]
    /\ i' = 1
    /\ pc' = "drop"
    /\ UNCHANGED <<train_opts, options, dim, factors, rf_arg, precomputed, sched_pos,
                   updated, convergence_token, converged, trained, train_stats, r2_in,
                   delta_elbo, n_checks, all_below, token0, sto_vars, tau_vars>>

PreOptions ==
    {[Y_ELBO_TauTrick |-> t] @@
        TrainOptions(MaxIter, 1, 1, se, 1, 1, TRUE, "medium", None, FALSE) :
        t \in BOOLEAN, se \in StartElboVals}

InitPre == \E to \in PreOptions : \E d \in MainDims : Constructed(to, d, 1)

NextPre ==
    \/ setTrainOptions
    \/ iterate_precompute_nodes
    \/ iterate_precompute_elbo
    \/ iterate_drop
    \/ iterate_update
    \/ iterate_elbo
    \/ iterate_finish

SpecPre == InitPre /\ [][NextPre]_vars

-----------------------------------------------------------------------------
(* Runs to their end.  iterate is sequential code: a step that can be taken *)
(* is taken, which is weak fairness of Next.                                *)
LiveOptions ==
    {TrainOptions(mi, 1, 1, se, 1, 1, fi, "medium", mr, FALSE) :
        mi \in 1..MaxIter, se \in StartElboVals, fi \in BOOLEAN, mr \in MinR2Vals}

InitLive == \E to \in LiveOptions : \E d \in MainDims : Constructed(to, d, 1)

SpecLive == InitLive /\ [][Next]_vars /\ WF_vars(Next)

-----------------------------------------------------------------------------
(* assess_convergence applied to a sequence of checks, as lines 257-261 do. *)
(* The first ELBO and the deltas are inputs.                                *)
FirstElboVals == {0, -50000000, -500000000, -2000000000, 2000000000}
DeltaElboVals == {NaN, Fl(-1), Fl(0), Fl(1), Fl(20)}

InitConv ==
    \E cm \in ConvergenceModes : \E tok \in 0..MaxChecks :
       /\ Constructed(TrainOptions(MaxIter, 1, 1, 0, 1, 1, FALSE, cm, None, FALSE),
                      [N |-> 2, M |-> 1, G |-> 1, K |-> 1], tok)

\* the caller hands the options over and the ledger holds the first record
conv_setup ==
    /\ pc = "constructed"
    /\ setTrainOptionsAccepts(train_opts)
    /\ options' = train_opts
    /\ \E f \in FirstElboVals :
         elbo' = [r \in {0} |-> [c \in ElboColumns |-> IF c = "total" THEN Fl(f) ELSE NaN]]
    /\ pc' = "assess"
    /\ UNCHANGED <<train_opts, dim, factors, rf_arg, precomputed, TauTrick, i, sched_pos,
                   updated, number_factors, iter_time, convergence_token,
                   converged, trained, train_stats, r2_in, delta_elbo, n_checks,
                   all_below, token0, sto_vars, tau_vars>>

\* lines 258-259: one call of assess_convergence; the loop ends once converged
conv_assess ==
    /\ pc = "assess"
    /\ ~converged
    /\ n_checks < MaxChecks
    /\ \E delta \in DeltaElboVals :
         LET r == assess_convergence(delta, elbo[0]["total"], convergence_token,
                                     options["convergence_mode"])
         IN /\ delta_elbo' = delta
            /\ convergence_token' = r.token
            /\ converged' = r.converged
            /\ all_below' = (all_below /\ BelowThreshold(delta, elbo[0]["total"],
                                                         options["convergence_mode"]))
    /\ n_checks' = n_checks + 1
    /\ UNCHANGED <<pc, train_opts, options, dim, factors, rf_arg, precomputed, TauTrick,
                   i, sched_pos, updated, elbo, number_factors, iter_time, trained,
                   train_stats, r2_in, token0, sto_vars, tau_vars>>

NextConv == conv_setup \/ conv_assess

SpecConv == InitConv /\ [][NextConv]_vars

-----------------------------------------------------------------------------
(* Runs whose options may lack a key or name an unknown convergence mode *)
RequiredKeys == {"maxiter", "start_drop", "freq_drop", "verbose", "quiet", "tolerance",
                 "convergence_mode", "forceiter", "schedule", "start_sparsity",
                 "gpu_mode", "start_elbo", "elbofreq", "drop", "stochastic"}

OptsOptions ==
    {WithoutKeys(TrainOptions(3, sd, 1, se, 1, 1, fi, cm, Fl(1), q), absent) :
        sd \in StartDropVals, se \in StartElboVals, fi \in BOOLEAN,
        cm \in {"medium", "unknown"}, q \in BOOLEAN,
        absent \in {{}} \cup {{key} : key \in RequiredKeys}}

InitOpts ==
    \E to \in OptsOptions : Constructed(to, [N |-> 2, M |-> 1, G |-> 1, K |-> MaxK], 1)

\* an assert of setTrainOptions fails: self.options stays None
setTrainOptions_AssertionError ==
    /\ pc = "constructed"
    /\ ~setTrainOptionsAccepts(train_opts)
    /\ pc' = "AssertionError"
    /\ UNCHANGED <<train_opts, options, dim, factors, rf_arg, precomputed, TauTrick, i,
                   sched_pos, updated, elbo, number_factors, iter_time,
                   convergence_token, converged, trained, train_stats, r2_in,
                   delta_elbo, n_checks, all_below, token0, sto_vars, tau_vars>>

\* iterate without options: line 207 subscripts None
iterate_TypeError ==
    /\ pc = "constructed"
    /\ options = None
    /\ pc' = "TypeError"
    /\ UNCHANGED <<train_opts, options, dim, factors, rf_arg, precomputed, TauTrick, i,
                   sched_pos, updated, elbo, number_factors, iter_time,
                   convergence_token, converged, trained, train_stats, r2_in,
                   delta_elbo, n_checks, all_below, token0, sto_vars, tau_vars>>

\* line 222 reads options['drop']
iterate_drop_KeyError ==
    /\ pc = "drop"
    /\ i < options["maxiter"]
    /\ IsDropIteration
    /\ "drop" \notin DOMAIN options
    /\ pc' = "KeyError"
    /\ UNCHANGED <<train_opts, options, dim, factors, rf_arg, precomputed, TauTrick, i,
                   sched_pos, updated, elbo, number_factors, iter_time,
                   convergence_token, converged, trained, train_stats, r2_in,
                   delta_elbo, n_checks, all_below, token0, sto_vars, tau_vars>>

\* line 235 reads options['elbofreq']
iterate_elbofreq_KeyError ==
    /\ pc = "elbo"
    /\ i >= options["start_elbo"]
    /\ "elbofreq" \notin DOMAIN options
    /\ pc' = "KeyError"
    /\ UNCHANGED <<train_opts, options, dim, factors, rf_arg, precomputed, TauTrick, i,
                   sched_pos, updated, elbo, number_factors, iter_time,
                   convergence_token, converged, trained, train_stats, r2_in,
                   delta_elbo, n_checks, all_below, token0, sto_vars, tau_vars>>

\* line 249 reads options['stochastic'], after the record of line 237 is stored
iterate_stochastic_KeyError ==
    /\ pc = "elbo"
    /\ i >= options["start_elbo"] => "elbofreq" \in DOMAIN options
    /\ IsElboIteration
    /\ \E vals \in ElboOracle :
         LET e == [elbo EXCEPT ![i] = calculateELBO(vals)]
             delta == FSub(e[i]["total"], e[PreviousRow]["total"])
         IN /\ ReadsStochastic(delta)
            /\ "stochastic" \notin DOMAIN options
            /\ elbo' = e
            /\ delta_elbo' = delta
    /\ pc' = "KeyError"
    /\ UNCHANGED <<train_opts, options, dim, factors, rf_arg, precomputed, TauTrick, i,
                   sched_pos, updated, number_factors, iter_time,
                   convergence_token, converged, trained, train_stats, r2_in,
                   n_checks, all_below, token0, sto_vars, tau_vars>>

\* line 308: assess_convergence does not recognise the mode and exits
iterate_assess_exit ==
    /\ pc = "elbo"
    /\ i >= options["start_elbo"] => "elbofreq" \in DOMAIN options
    /\ IsElboIteration
    /\ IsAssessed
    /\ options["convergence_mode"] \notin ConvergenceModes
    /\ \E vals \in ElboOracle :
         LET e == [elbo EXCEPT ![i] = calculateELBO(vals)]
             delta == FSub(e[i]["total"], e[PreviousRow]["total"])
         IN /\ ReadsStochastic(delta) => "stochastic" \in DOMAIN options
            /\ elbo' = e
            /\ delta_elbo' = delta
    /\ pc' = "exited"
    /\ UNCHANGED <<train_opts, options, dim, factors, rf_arg, precomputed, TauTrick, i,
                   sched_pos, updated, number_factors, iter_time,
                   convergence_token, converged, trained, train_stats, r2_in,
                   n_checks, all_below, token0, sto_vars, tau_vars>>

NextOpts ==
    \/ Next
    \/ setTrainOptions_AssertionError
    \/ iterate_TypeError
    \/ iterate_drop_KeyError
    \/ iterate_elbofreq_KeyError
    \/ iterate_stochastic_KeyError
    \/ iterate_assess_exit

SpecOpts == InitOpts /\ [][NextOpts]_vars

-----------------------------------------------------------------------------
(* StochasticBayesNet *)

\* line 437: ro = 1.
FullStep == <<"1.">>

\* step_size2 = learning_rate / (1 + forgetting_rate*epoch)**(3./4.): the value
\* that the two rates and the argument determine
step_size2(epoch) ==
    <<"step_size2", options["learning_rate"], options["forgetting_rate"], epoch>>

\* the arrays s.random.choice(range(N), size=N, replace=False) can return: every
\* permutation of 0..N-1 for N <= MaxShuffle, three of them for a larger N
Rotation(N, r) == [j \in 1..N |-> (j - 1 + r) % N]
Reversal(N) == [j \in 1..N |-> N - j]
ShuffleChoices(N) ==
    IF N <= MaxShuffle
    THEN {p \in [1..N -> 0..(N - 1)] : \A a \in 1..N : \A b \in 1..N : a # b => p[a] # p[b]}
    ELSE {Rotation(N, 0), Rotation(N, 1), Reversal(N)}

\* the values options['batch_size'] takes in this model
BatchSizes == {DFromRatio(1, 1), DFromRatio(1, 2), DFromRatio(1, 3), DFromRatio(1, 4),
               DFromRatio(3, 10)}

\* line 380
n_batches(batch_size) == DCeil(DRecip(batch_size))

\* mutant: the chunks are twice as long
batch_bound_double(batch_size, N, b) == DInt(DMulNat(DMulNat(batch_size, N), 2 * b))

\* lines 381 and 389-390: int(S * b) for S = batch_size * N
batch_bound(batch_size, N, b) == DInt(DMulNat(DMulNat(batch_size, N), b))

\* the two functions above, tabulated once for the batch sizes and N of the model
n_batches_table == [bs \in BatchSizes |-> n_batches(bs)]
batch_bound_table ==
    [x \in UNION {{<<bs, N, b>> : N \in 1..MaxN, b \in 0..n_batches(bs)} : bs \in BatchSizes}
       |-> batch_bound(x[1], x[2], x[3])]

\* lines 377-383; int(i / n_batches) is i \div n_batches for the ints of a run
batch_position(i_arg) ==
    LET i0 == i_arg - 1
        n_b == n_batches_table[options["batch_size"]]
    IN [n_batches |-> n_b, batch_ix |-> i0 % n_b, epoch |-> i0 \div n_b]

\* a numpy index array: distinct from None also when it is empty
Arr(seq) == <<seq>>

\* lines 389-394: the slice shuffled[min:max]
batch_slice(batch_ix, shuffled) ==
    LET min == batch_bound_table[<<options["batch_size"], dim.N, batch_ix>>]
        max0 == batch_bound_table[<<options["batch_size"], dim.N, batch_ix + 1>>]
        max == IF max0 > dim.N THEN dim.N ELSE max0
    IN Arr(SubSeq(shuffled, min + 1, max))

\* mutant: the Tau node is not told the mini-batch
define_mini_batch_noTau(ix_arg) ==
    [n \in IndexAware |->
        IF n \in {"Y"} \cup (registered \cap {"AlphaZ", "ThetaZ"})
        THEN ix_arg ELSE mini_batch[n]]

\* StochasticBayesNet.define_mini_batch
define_mini_batch(ix_arg) ==
    [n \in IndexAware |->
        IF n \in {"Y", "Tau"} \cup (registered \cap {"AlphaZ", "ThetaZ"})
        THEN ix_arg ELSE mini_batch[n]]

\* the last call logged belongs to epoch e
SameEpoch(log, e) == log # <<>> /\ log[Len(log)].epoch = e

\* lines 434-435 with sample_mini_batch_no_replace: the call that returns
sample_mini_batch_no_replace(i_arg) ==
    LET pos == batch_position(i_arg)
    IN \E shuffled \in (IF pos.batch_ix = 0 THEN ShuffleChoices(dim.N) ELSE {shuffled_ix}) :
         /\ shuffled # None
         /\ LET ix1 == batch_slice(pos.batch_ix, shuffled)
                call == [epoch |-> pos.epoch, batch_ix |-> pos.batch_ix,
                         n_batches |-> pos.n_batches, fresh |-> (pos.batch_ix = 0),
                         ix |-> ix1]
            IN /\ shuffled_ix' = shuffled
               /\ mini_batch' = define_mini_batch(ix1)
               /\ ix' = ix1
               /\ ro' = step_size2(pos.epoch)
               /\ epoch_log' = IF SameEpoch(epoch_log, pos.epoch)
                               THEN Append(epoch_log, call) ELSE <<call>>

\* StochasticBayesNet.iterate, lines 412-427, with BayesNet.precompute
sto_iterate_begin ==
    /\ pc = "ready"
    /\ \E vals \in ElboOracle :
         LET mi == options["maxiter"]
             frame == [r \in 0..mi |-> [c \in ElboColumns |-> NaN]]
         IN /\ precomputed' = [n \in Nodes |-> precomputed[n] + 1]
            /\ TauTrick' = options["Y_ELBO_TauTrick"]
            /\ elbo' = [frame EXCEPT ![0] = calculateELBO(vals)]
            /\ number_factors' = [nans(mi + 1) EXCEPT ![0] = Fl(dim.K)]
            /\ iter_time' = [nans(mi + 1) EXCEPT ![0] = Fl(0)]
    /\ converged' = FALSE
    /\ convergence_token' = 1
    /\ token0' = 1
    /\ ix' = None
    /\ i' = 1
    /\ pc' = "sample"
    /\ UNCHANGED <<train_opts, options, dim, factors, rf_arg, sched_pos, updated,
                   trained, train_stats, r2_in, delta_elbo, n_checks, all_below,
                   registered, shuffled_ix, mini_batch, ro, update_args, epoch_log, tau_vars>>

\* mutant: the stochastic regime starts one iteration late
IsStochasticIteration_late == i > options["start_stochastic"]

\* line 433
IsStochasticIteration == i >= options["start_stochastic"]

\* StochasticBayesNet.iterate, lines 433-437
sto_iterate_sample ==
    /\ pc = "sample"
    /\ i < options["maxiter"]
    /\ IF IsStochasticIteration
       THEN sample_mini_batch_no_replace(i - (options["start_stochastic"] - 1))
       ELSE /\ ro' = FullStep
            /\ UNCHANGED <<shuffled_ix, mini_batch, ix, epoch_log>>
    /\ pc' = "drop"
    /\ UNCHANGED <<train_opts, options, dim, factors, rf_arg, precomputed, TauTrick, i,
                   sched_pos, updated, elbo, number_factors, iter_time,
                   convergence_token, converged, trained, train_stats, r2_in,
                   delta_elbo, n_checks, all_below, token0, registered, update_args, tau_vars>>

\* line 394 reads self.shuffled_ix, which no call has set yet
sto_iterate_sample_AttributeError ==
    /\ pc = "sample"
    /\ i < options["maxiter"]
    /\ IsStochasticIteration
    /\ batch_position(i - (options["start_stochastic"] - 1)).batch_ix # 0
    /\ shuffled_ix = None
    /\ pc' = "AttributeError"
    /\ UNCHANGED <<train_opts, options, dim, factors, rf_arg, precomputed, TauTrick, i,
                   sched_pos, updated, elbo, number_factors, iter_time,
                   convergence_token, converged, trained, train_stats, r2_in,
                   delta_elbo, n_checks, all_below, token0, sto_vars, tau_vars>>

\* StochasticBayesNet.iterate, lines 440-444, with BayesNet.removeInactiveFactors
sto_iterate_drop ==
    /\ pc = "drop"
    /\ IsDropIteration => "drop" \in DOMAIN options
    /\ IF IsDropIteration /\ options["drop"]["min_r2"] # None
       THEN \E val \in R2Oracle(dim) :
            \E drop \in drop_choices(calculate_variance_explained(val, dim),
                                     options["drop"]["min_r2"][1], dim) :
              LET K1 == dim.K - Len(drop)
              IN /\ r2_in' = val
                 /\ IF Len(drop) > 0
                    THEN /\ factors' = [n \in Nodes |->
                                IF n \in removeFactorsNodes
                                THEN removeFactors(factors[n], drop, 0) ELSE factors[n]]
                         /\ rf_arg' = [n \in Nodes |->
                                IF n \in removeFactorsNodes THEN drop ELSE rf_arg[n]]
                    ELSE UNCHANGED <<factors, rf_arg>>
                 /\ dim' = [dim EXCEPT !.K = K1]
                 /\ IF AllFactorsShutDown(K1)
                    THEN pc' = "exited" /\ UNCHANGED number_factors
                    ELSE /\ pc' = "update"
                         /\ number_factors' = [number_factors EXCEPT ![i] = Fl(K1)]
       ELSE /\ pc' = "update"
            /\ number_factors' = IF RecordsNumberFactors(IsDropIteration)
                                 THEN [number_factors EXCEPT ![i] = Fl(dim.K)]
                                 ELSE number_factors
            /\ UNCHANGED <<dim, factors, rf_arg, r2_in>>
    /\ UNCHANGED <<train_opts, options, precomputed, TauTrick, i, sched_pos, updated,
                   elbo, iter_time, convergence_token, converged, trained,
                   train_stats, delta_elbo, n_checks, all_below, token0, sto_vars, tau_vars>>

\* StochasticBayesNet.iterate, lines 448-451: one pass of the loop over the schedule
sto_iterate_update ==
    /\ pc = "update"
    /\ LET node == options["schedule"][sched_pos]
       IN IF SkipsUpdate(node, i)
          THEN UNCHANGED <<updated, update_args>>
          ELSE /\ updated' = Append(updated, node)
               /\ update_args' = Append(update_args, [ix |-> ix, ro |-> ro])
    /\ IF sched_pos = Len(options["schedule"])
       THEN pc' = "elbo" /\ sched_pos' = 1
       ELSE pc' = pc /\ sched_pos' = sched_pos + 1
    /\ r2_in' = None
    /\ UNCHANGED <<train_opts, options, dim, factors, rf_arg, precomputed, TauTrick, i,
                   elbo, number_factors, iter_time, convergence_token, converged,
                   trained, train_stats, delta_elbo, n_checks, all_below, token0,
                   registered, shuffled_ix, mini_batch, ix, ro, epoch_log, tau_vars>>

\* lines 506-509 and the loop increment; e is the DataFrame so far
sto_iterate_continue(e) ==
    /\ elbo' = e
    /\ iter_time' = [iter_time EXCEPT ![i] = Fl(1)]
    /\ i' = i + 1
    /\ pc' = "sample"
    /\ updated' = <<>>
    /\ update_args' = <<>>
    /\ rf_arg' = [n \in Nodes |-> None]
    /\ UNCHANGED number_factors

\* lines 479-482; e is the DataFrame so far
\* mutant: the stochastic loop goes on after convergence is declared
sto_iterate_break_goes_on(e) == sto_iterate_continue(e)

sto_iterate_break(e) ==
    /\ number_factors' = Truncate(number_factors, i)
    /\ elbo' = Truncate(e, i)
    /\ iter_time' = Truncate(iter_time, i)
    /\ pc' = "finish"
    /\ UNCHANGED <<i, updated, update_args, rf_arg>>

\* StochasticBayesNet.iterate, lines 455-509
sto_iterate_elbo ==
    /\ pc = "elbo"
    /\ i >= options["start_elbo"] => "elbofreq" \in DOMAIN options
    /\ IF IsElboIteration
       THEN \E vals \in ElboOracle : \E e \in {[elbo EXCEPT ![i] = calculateELBO(vals)]} :
              LET delta == FSub(e[i]["total"], e[PreviousRow]["total"])
              IN /\ IsAssessed => options["convergence_mode"] \in ConvergenceModes
                 /\ delta_elbo' = delta
                 /\ IF IsAssessed
                    THEN LET r == assess_convergence(delta, e[0]["total"], convergence_token,
                                                     options["convergence_mode"])
                         IN /\ convergence_token' = r.token
                            /\ converged' = r.converged
                            /\ n_checks' = n_checks + 1
                            /\ all_below' = (all_below /\ BelowThreshold(delta, e[0]["total"],
                                                            options["convergence_mode"]))
                            /\ IF r.converged THEN sto_iterate_break(e)
                               ELSE sto_iterate_continue(e)
                    ELSE /\ sto_iterate_continue(e)
                         /\ UNCHANGED <<convergence_token, converged, n_checks, all_below>>
       ELSE /\ sto_iterate_continue(elbo)
            /\ UNCHANGED <<convergence_token, converged, n_checks, all_below, delta_elbo>>
    /\ UNCHANGED <<train_opts, options, dim, factors, precomputed, TauTrick, sched_pos,
                   trained, train_stats, r2_in, token0,
                   registered, shuffled_ix, mini_batch, ix, ro, epoch_log, tau_vars>>

\* StochasticBayesNet.iterate, lines 512-513
sto_iterate_finish ==
    /\ IF pc = "sample" THEN i >= options["maxiter"] ELSE pc = "finish"
    /\ train_stats' = [time |-> iter_time,
                       number_factors |-> number_factors,
                       elbo |-> [r \in DOMAIN elbo |-> elbo[r]["total"]],
                       elbo_terms |-> [r \in DOMAIN elbo |->
                                         [c \in ElboColumns \ {"total"} |-> elbo[r][c]]]]
    /\ trained' = TRUE
    /\ pc' = "done"
    /\ UNCHANGED <<train_opts, options, dim, factors, rf_arg, precomputed, TauTrick, i,
                   sched_pos, updated, elbo, number_factors, iter_time,
                   convergence_token, converged, r2_in, delta_elbo, n_checks,
                   all_below, token0, sto_vars, tau_vars>>

-----------------------------------------------------------------------------
(* Stochastic training runs: an ELBO checkpoint in the last iteration only, *)
(* no pruning threshold                                                    *)
StartStochasticVals == {0, 1, 2}

\* the options of a stochastic run: those of TrainOptions and the stochastic ones
StochasticOptions(to, bs, st) ==
    [stochastic |-> TRUE, batch_size |-> bs, start_stochastic |-> st,
     learning_rate |-> Fl(1), forgetting_rate |-> Fl(1)] @@ to

StochOptions ==
    {StochasticOptions(TrainOptions(MaxIter + 3, 1, 1, MaxIter + 2, 1, 1, TRUE, "medium",
                                    None, FALSE), bs, st) :
        bs \in BatchSizes, st \in StartStochasticVals}

StochDims == {[N |-> n, M |-> 1, G |-> 1, K |-> 1] : n \in 1..MaxN}

InitStoch ==
    \E to \in StochOptions : \E d \in StochDims :
    \E extra \in {{}, {"AlphaZ"}, {"AlphaZ", "ThetaZ"}} :
        ConstructedWith(to, d, 1, extra)

NextStoch ==
    \/ setTrainOptions
    \/ sto_iterate_begin
    \/ sto_iterate_sample
    \/ sto_iterate_sample_AttributeError
    \/ sto_iterate_drop
    \/ sto_iterate_update
    \/ sto_iterate_elbo
    \/ sto_iterate_finish

SpecStoch == InitStoch /\ [][NextStoch]_vars

-----------------------------------------------------------------------------
(* Runs of StochasticBayesNet.iterate that never reach start_stochastic,    *)
(* with the convergence test and the pruning threshold of the full-batch    *)
(* runs                                                                     *)
InitFullBatch ==
    \E to \in {o \in LiveOptions : o["maxiter"] = MaxIter /\ o["drop"]["min_r2"] # None} :
    \E st \in {to["maxiter"], to["maxiter"] + 1} :
    \E d \in {md \in MainDims : md.K <= 2} :
        Constructed(StochasticOptions(to, DFromRatio(1, 2), st), d, 1)

NextFullBatch ==
    \/ setTrainOptions
    \/ sto_iterate_begin
    \/ sto_iterate_sample
    \/ sto_iterate_drop
    \/ sto_iterate_update
    \/ sto_iterate_elbo
    \/ sto_iterate_finish

SpecFullBatch == InitFullBatch /\ [][NextFullBatch]_vars

-----------------------------------------------------------------------------
(* TauD_Node (src/biofam/core/nodes/Tau_nodes.py) with its Markov blanket.   *)
(* Y has the samples as rows and the features as columns; its stored value  *)
(* is a masked array, data and mask.  The shape and rate cells of P and Q   *)
(* are in units of 1/2, so that a_P + count/2 and b_P + tmp/2 are integers. *)
(* The Y, W and Z nodes are not part of the sources: their getExpectation   *)
(* and getExpectations return the arrays the nodes store.                   *)

\* the state of BayesNet and StochasticBayesNet, which the node does not touch
net_vars == <<pc, train_opts, options, dim, factors, rf_arg, precomputed, TauTrick,
              i, sched_pos, updated, elbo, number_factors, iter_time,
              convergence_token, converged, trained, train_stats, r2_in,
              delta_elbo, n_checks, all_below, token0, sto_vars>>

TauSamples == 1..2
TauFeatures == 1..2
TauFactors == 1..2

\* a cell of Y: observed, or masked with NaN or 0 stored under the mask
YCells == {[data |-> Fl(1), mask |-> FALSE], [data |-> Fl(2), mask |-> FALSE],
           [data |-> NaN, mask |-> TRUE], [data |-> Fl(0), mask |-> TRUE]}

\* first and second moments of Z (samples x factors) and W (features x factors)
ZExps == {[E |-> <<<<1, 0>>, <<1, 1>>>>, E2 |-> <<<<1, 1>>, <<2, 1>>>>],
          [E |-> <<<<0, 1>>, <<2, 1>>>>, E2 |-> <<<<1, 1>>, <<4, 2>>>>]}
WExps == {[E |-> <<<<1, 1>>, <<0, 1>>>>, E2 |-> <<<<1, 2>>, <<1, 1>>>>],
          [E |-> <<<<2, 0>>, <<1, 1>>>>, E2 |-> <<<<4, 1>>, <<1, 2>>>>]}

\* pa, pb and qa, qb of __init__, one cell per feature
GammaParams == {[a |-> [d \in TauFeatures |-> Fl(2)], b |-> [d \in TauFeatures |-> Fl(2)]],
                [a |-> [d \in TauFeatures |-> Fl(2 * d)], b |-> [d \in TauFeatures |-> Fl(4)]]}

RECURSIVE TauSum(_)
\* the sum of the values of the function f
TauSum(f) ==
    IF DOMAIN f = {} THEN 0
    ELSE LET c0 == CHOOSE c \in DOMAIN f : TRUE
         IN f[c0] + TauSum([c \in DOMAIN f \ {c0} |-> f[c]])

\* lines 17-18, and the nodes the blanket refers to
tau_build ==
    /\ pc = "constructed"
    /\ tau = None
    /\ \E Pp \in GammaParams, Qp \in GammaParams :
         tau' = [P |-> Pp, Q |-> Qp, Qa_pre |-> None]
    /\ \E y \in [TauSamples \X TauFeatures -> YCells], w \in WExps, z \in ZExps :
         blanket' = [Ydata |-> [c \in DOMAIN y |-> y[c].data],
                     Ymask |-> [c \in DOMAIN y |-> y[c].mask], W |-> w, Z |-> z]
    /\ UNCHANGED <<net_vars, tau_calls>>

\* the node exists when the options of the network are set
tau_setTrainOptions == tau # None /\ setTrainOptions

\* line 30: self.Qa_pre, per feature
Qa_pre(Pa, mask) ==
    [d \in TauFeatures |->
        Fl(Pa[d][1] + (Cardinality(TauSamples)
                         - Cardinality({n \in TauSamples : mask[<<n, d>>]})))]

\* lines 20-30
tau_precompute ==
    /\ pc = "ready"
    /\ tau # None
    /\ tau.Qa_pre = None
    /\ tau' = [tau EXCEPT !.Qa_pre = Qa_pre(tau.P.a, blanket.Ymask)]
    /\ UNCHANGED <<net_vars, blanket, tau_calls>>

\* lines 63-64: Y = Y.data is the data array of the masked array itself, and
\* Y[mask] = 0. writes into it
MaskedToZero(data, mask) == [c \in DOMAIN data |-> IF mask[c] THEN Fl(0) ELSE data[c]]

\* lines 67-89: Qb, per feature; Y is the data array after line 64
Qb(Pb, Y, mask, W, Z) ==
    LET ZW == [c \in DOMAIN Y |->
                 IF mask[c] THEN 0
                 ELSE TauSum([k \in TauFactors |-> Z.E[c[1]][k] * W.E[c[2]][k]])]
        col(f, d) == TauSum([n \in TauSamples |-> f[<<n, d>>]])
        term1(d) == col([c \in DOMAIN Y |-> Y[c][1] * Y[c][1]], d)
        term2(d) == col([c \in DOMAIN Y |->
                           IF mask[c] THEN 0
                           ELSE TauSum([k \in TauFactors |-> Z.E2[c[1]][k] * W.E2[c[2]][k]])], d)
        term3(d) == (0 - col([c \in DOMAIN Y |->
                                IF mask[c] THEN 0
                                ELSE TauSum([k \in TauFactors |->
                                        Z.E[c[1]][k] * Z.E[c[1]][k]
                                          * W.E[c[2]][k] * W.E[c[2]][k]])], d))
                    + col([c \in DOMAIN Y |-> ZW[c] * ZW[c]], d)
        term4(d) == 2 * col([c \in DOMAIN Y |-> ZW[c] * Y[c][1]], d)
    IN [d \in TauFeatures |-> Fl(Pb[d][1] + (term1(d) + term2(d) + term3(d) - term4(d)))]

\* lines 47-92
tau_updateParameters ==
    /\ pc = "ready"
    /\ tau # None
    /\ tau.Qa_pre # None
    /\ tau_calls < MaxTauUpdates
    /\ LET Y == MaskedToZero(blanket.Ydata, blanket.Ymask)
       IN /\ blanket' = [blanket EXCEPT !.Ydata = Y]
          /\ tau' = [tau EXCEPT !.Q = [a |-> tau.Qa_pre,
                                       b |-> Qb(tau.P.b, Y, blanket.Ymask,
                                                blanket.W, blanket.Z)]]
    /\ tau_calls' = tau_calls + 1
    /\ UNCHANGED net_vars

\* BayesNet.iterate, line 231: the W and Z nodes are updated in their turn
tau_neighbours_update ==
    /\ pc = "ready"
    /\ tau # None
    /\ tau.Qa_pre # None
    /\ \E w \in WExps, z \in ZExps :
         /\ <<w, z>> # <<blanket.W, blanket.Z>>
         /\ blanket' = [blanket EXCEPT !.W = w, !.Z = z]
    /\ UNCHANGED <<net_vars, tau, tau_calls>>

InitTau ==
    \E to \in {TrainOptions(MaxIter, 1, 1, 1, 1, 1, TRUE, "medium", None, FALSE)} :
      \E d \in MainDims : Constructed(to, d, 1)

NextTau ==
    \/ tau_build
    \/ tau_setTrainOptions
    \/ tau_precompute
    \/ tau_updateParameters
    \/ tau_neighbours_update

SpecTau == InitTau /\ [][NextTau]_vars

-----------------------------------------------------------------------------
(* TauD_Node.calculateELBO, in binary64.  A signed double is                  *)
(* [s |-> 1 or -1, m |-> bits, e |-> exponent] of value s * m * 2^e; the     *)
(* node has one feature, so that every s.sum of lines 22 and 101-102 is the  *)
(* cell itself.  s.log and special.gammaln are library functions: their      *)
(* values at the few arguments that occur are part of the state.             *)

\* the double k * 2^e, for an integer k
Dbl(k, e) ==
    LET r == DRound(BFromNat(Abs(k)), e, FALSE)
    IN [s |-> IF k < 0 THEN -1 ELSE 1, m |-> r.m, e |-> r.e]

\* x * y; the significands are multiplied without their low zero bits, the
\* shorter one being the multiplier
DTimes(x, y) ==
    IF x.m = <<>> \/ y.m = <<>> THEN Dbl(0, 0)
    ELSE LET zeros(M) == CHOOSE k \in 0..(Len(M) - 1) :
                            M[k + 1] = 1 /\ \A j \in 1..k : M[j] = 0
             mx == BShr(x.m, zeros(x.m))
             my == BShr(y.m, zeros(y.m))
             prod == IF Len(mx) >= Len(my) THEN BMul(mx, my) ELSE BMul(my, mx)
             r == DRound(prod, x.e + zeros(x.m) + y.e + zeros(y.m), FALSE)
         IN [s |-> x.s * y.s, m |-> r.m, e |-> r.e]

\* x + y; x - y is DPlus(x, [y EXCEPT !.s = -y.s])
DPlus(x, y) ==
    IF x.m = <<>> THEN y
    ELSE IF y.m = <<>> THEN x
    ELSE LET lo == IF x.e <= y.e THEN x.e ELSE y.e
             mx == BShl(x.m, x.e - lo)
             my == BShl(y.m, y.e - lo)
             signed(sg, M) == LET r == DRound(M, lo, FALSE)
                              IN [s |-> sg, m |-> r.m, e |-> r.e]
         IN IF x.s = y.s THEN signed(x.s, BAdd(mx, my))
            ELSE IF mx = my THEN Dbl(0, 0)
            ELSE IF BLess(mx, my) THEN signed(y.s, BSub(my, mx))
            ELSE signed(x.s, BSub(mx, my))

\* log(1.) = 0. and lgamma(1.) = lgamma(2.) = 0. are exact; log(2.) is the double
\* 0x1.62e42fefa39efp-1, and lgamma(3.) = log(2) is that double or, as the C
\* library's lgamma has it, 0x1.62e42fefa39ecp-1
Libm ==
    LET hi == BShl(BFromNat(23258159), 28)
        ln2 == [s |-> 1, m |-> BAdd(hi, BFromNat(251279855)), e |-> -53]
        ln2low == [s |-> 1, m |-> BAdd(hi, BFromNat(251279852)), e |-> -53]
    IN [log |-> {[b \in 1..2 |-> IF b = 1 THEN Dbl(0, 0) ELSE ln2]},
        gammaln |-> {[a \in 1..3 |-> IF a = 3 THEN g ELSE Dbl(0, 0)] : g \in {ln2, ln2low}}]

\* lines 17-18: pa, pb, qa, qb, with the expectations E and lnE that Q caches
tau_elbo_build ==
    /\ pc = "constructed"
    /\ tau = None
    /\ \E Pa \in 1..3, Pb \in 1..2, same \in BOOLEAN, E2 \in {1, 2, 3}, lnE2 \in {-1, 0, 2},
          lg \in Libm.log, gl \in Libm.gammaln :
         tau' = [P |-> [a |-> Pa, b |-> Pb],
                 Q |-> IF same THEN [a |-> Pa, b |-> Pb] ELSE [a |-> 4 - Pa, b |-> 3 - Pb],
                 E |-> Dbl(E2, -1), lnE |-> Dbl(lnE2, -1),
                 log |-> lg, gammaln |-> gl, lbconst |-> None, elbo |-> None]
    /\ UNCHANGED <<net_vars, blanket, tau_calls>>

\* mutant: lbconst without the gammaln term
tau_elbo_precompute_no_gammaln ==
    /\ pc = "ready"
    /\ tau # None
    /\ tau.lbconst = None
    /\ tau' = [tau EXCEPT !.lbconst = DTimes(Dbl(tau.P.a, 0), tau.log[tau.P.b])]
    /\ UNCHANGED <<net_vars, blanket, tau_calls>>

\* lines 20-22: self.lbconst
tau_elbo_precompute ==
    /\ pc = "ready"
    /\ tau # None
    /\ tau.lbconst = None
    /\ LET g == tau.gammaln[tau.P.a]
       IN tau' = [tau EXCEPT !.lbconst = DPlus(DTimes(Dbl(tau.P.a, 0), tau.log[tau.P.b]),
                                               [g EXCEPT !.s = -g.s])]
    /\ UNCHANGED <<net_vars, blanket, tau_calls>>

\* lines 94-104
tau_calculateELBO ==
    /\ pc = "ready"
    /\ tau # None
    /\ tau.lbconst # None
    /\ tau.elbo = None
    /\ LET neg(x) == [x EXCEPT !.s = -x.s]
           P_a == Dbl(tau.P.a, 0)
           P_b == Dbl(tau.P.b, 0)
           Q_a == Dbl(tau.Q.a, 0)
           Q_b == Dbl(tau.Q.b, 0)
           one == Dbl(1, 0)
           lb_p == DPlus(DPlus(tau.lbconst, DTimes(DPlus(P_a, neg(one)), tau.lnE)),
                         neg(DTimes(P_b, tau.E)))
           lb_q == DPlus(DPlus(DPlus(DTimes(Q_a, tau.log[tau.Q.b]),
                                     DTimes(DPlus(Q_a, neg(one)), tau.lnE)),
                               neg(DTimes(Q_b, tau.E))),
                         neg(tau.gammaln[tau.Q.a]))
       IN tau' = [tau EXCEPT !.elbo = DPlus(lb_p, neg(lb_q))]
    /\ UNCHANGED <<net_vars, blanket, tau_calls>>

NextTauElbo ==
    \/ tau_elbo_build
    \/ tau_setTrainOptions
    \/ tau_elbo_precompute
    \/ tau_calculateELBO

SpecTauElbo == InitTau /\ [][NextTauElbo]_vars

-----------------------------------------------------------------------------
(* Claims *)

RECURSIVE SumCells(_, _)
SumCells(row, cols) ==
    IF cols = {} THEN 0
    ELSE LET c == CHOOSE x \in cols : TRUE
         IN row[c][1] + SumCells(row, cols \ {c})

\* C1: in every record of the ELBO ledger that calculateELBO produced (row 0 from
\* precompute, every checkpoint row of iterate), total is the sum of the
\* contributions of all variational nodes of that record.
C1_TotalIsSumOfTerms ==
    \A r \in DOMAIN elbo :
        elbo[r]["total"] # NaN =>
            /\ \A c \in ElboColumns : elbo[r][c] # NaN
            /\ elbo[r]["total"][1] = SumCells(elbo[r], ElboColumns \ {"total"})

\* C1 witness: a checkpoint record of iterate is in the ledger beside row 0
C1_Witness ==
    \E r \in DOMAIN elbo : r >= 2 /\ elbo[r]["total"] # NaN /\ elbo[0]["total"] # NaN

\* C2: K never increases; a pruning step that brings K to 0 ends the run at once
\* (exit): no step follows it, so no node is updated and no ELBO is evaluated
\* afterwards, and the network is not marked trained and has no train_stats.
C2_KNonIncreasingCollapseFatal ==
    [][/\ dim'.K <= dim.K
       /\ (dim'.K = 0 /\ dim.K > 0) => pc' = "exited"
       /\ pc' = "exited" => (~trained' /\ train_stats' = None)
       /\ pc # "exited"]_vars

\* C2 witness: K fell from 2 to 0 over two pruning iterations and the run exited
C2_Witness == pc = "exited" /\ dim.K = 0 /\ i = 2 /\ updated = <<>>

\* C3 (as claimed): from the counter value 1, with every check below the
\* threshold, convergence is declared on the 5th check and on no earlier one.
C3_ConvergedOnFifthCheck ==
    (pc = "assess" /\ token0 = 1 /\ all_below) => (converged <=> n_checks = 5)

\* C3 (amended): from the counter value 1, with every check below the threshold,
\* convergence is declared on the 4th check and on no earlier one.
C3_ConvergedOnFourthCheck ==
    (pc = "assess" /\ token0 = 1 /\ all_below) => (converged <=> n_checks = 4)

\* C3 witness: four checks, all below the threshold, from the counter value 1
C3_Witness ==
    pc = "assess" /\ token0 = 1 /\ all_below /\ n_checks = 4 /\ converged
        /\ delta_elbo # NaN /\ delta_elbo # Fl(0)

\* C4: a check that is not below the threshold resets the counter to 1 and does
\* not declare convergence, whatever the counter was; a check below the threshold
\* adds exactly 1, and convergence is declared exactly when the counter reaches 5.
C4_CounterRule ==
    [][n_checks' = n_checks + 1 =>
         IF BelowThreshold(delta_elbo', elbo[0]["total"], options["convergence_mode"])
         THEN /\ convergence_token' = convergence_token + 1
              /\ converged' <=> (convergence_token' = 5)
         ELSE /\ convergence_token' = 1
              /\ ~converged']_vars

\* C4 witness: the counter stood at 4 and one check above the threshold reset it
C4_Witness ==
    pc = "assess" /\ token0 = 4 /\ n_checks = 1 /\ convergence_token = 1 /\ ~converged

\* the factors whose measured R2 is <= min_r2 in every view of every group
TrulyEligible(val, min_r2, G, M, K) ==
    {k \in 0..(K - 1) :
        \A g \in 0..(G - 1) : \A m \in 0..(M - 1) : val[<<g, m, k>>] <= min_r2}

\* the K the last pruning step started from
KBeforeDrop == Cardinality(DOMAIN r2_in) \div (dim.G * dim.M)

\* C5: a factor is removed only if its R2 is <= min_r2 in every view of every
\* group, the groups before the last one included.
C5_RemovedOnlyIfLowInEveryGroup ==
    DOMAIN r2_in # {} =>
        \A x \in DOMAIN rf_arg["Z"] :
            rf_arg["Z"][x] \in TrulyEligible(r2_in, options["drop"]["min_r2"][1],
                                             dim.G, dim.M, KBeforeDrop)

\* C6: a pruning step removes exactly one factor when some factor is eligible in
\* every group and none otherwise; every node of the registry gets the same
\* index, before any update of the iteration, and K falls by the number removed.
C6_ExactlyOneWhenEligible ==
    DOMAIN r2_in # {} =>
        LET elig == TrulyEligible(r2_in, options["drop"]["min_r2"][1],
                                  dim.G, dim.M, KBeforeDrop)
            drop == rf_arg["Z"]
        IN /\ elig # {} => Len(drop) = 1
           /\ elig = {} => Len(drop) = 0
           /\ \A n \in Nodes : rf_arg[n] = drop
           /\ \A n \in Nodes : Len(factors[n]) = dim.K
           /\ updated = <<>>
           /\ dim.K = KBeforeDrop - Len(drop)

\* C7: with forceiter, start_elbo = 0 and elbofreq = 1, a run that does not
\* collapse returns a total-ELBO series of exactly maxiter entries, all computed.
C7_ElboSeriesHasMaxiterEntries ==
    (pc = "done" /\ options["forceiter"] /\ options["start_elbo"] = 0
        /\ options["elbofreq"] = 1) =>
        /\ Length(train_stats["elbo"]) = options["maxiter"]
        /\ \A r \in DOMAIN train_stats["elbo"] : train_stats["elbo"][r] # NaN

\* C8: every iteration that iterate carries through records the current K in
\* number_factors[i] and a wall time in iter_time[i], pruning iteration or not.
C8_EveryIterationRecordsK ==
    [][(pc = "elbo" /\ pc' = "drop") =>
          /\ number_factors'[i] = Fl(dim.K)
          /\ iter_time'[i] # NaN]_vars

\* C9: options that lack a required key are rejected before any node is
\* precomputed or updated, and the network is never trained with them.
C9_MissingKeyRejectedAtStart ==
    RequiredKeys \ DOMAIN train_opts # {} =>
        /\ \A n \in Nodes : precomputed[n] = 0
        /\ updated = <<>>
        /\ ~trained

\* C10: an unrecognised convergence_mode (every required key being present) ends
\* the run fatally before any node update, whatever forceiter, start_elbo and
\* elbofreq are; the network is never trained with it.
C10_UnknownModeFatalAtStart ==
    (RequiredKeys \subseteq DOMAIN train_opts
        /\ train_opts["convergence_mode"] \notin ConvergenceModes) =>
        /\ updated = <<>>
        /\ i <= 1
        /\ ~trained

\* the indices of a logged mini-batch, as a set
BatchSet(call) == {call.ix[1][j] : j \in DOMAIN call.ix[1]}

\* C11: the n_batches mini-batches of one epoch are pairwise disjoint and their
\* union is 0..N-1; the first call of every epoch draws a fresh permutation, the
\* first stochastic iteration included whatever start_stochastic is (so that no
\* call finds the permutation missing).
C11_EpochBatchesPartition ==
    /\ pc # "AttributeError"
    /\ epoch_log # <<>> =>
         /\ epoch_log[1].fresh
         /\ Len(epoch_log) = epoch_log[1].n_batches =>
              /\ \A a \in DOMAIN epoch_log : \A b \in DOMAIN epoch_log :
                    a # b => BatchSet(epoch_log[a]) \cap BatchSet(epoch_log[b]) = {}
              /\ UNION {BatchSet(epoch_log[a]) : a \in DOMAIN epoch_log} = 0..(dim.N - 1)

\* floor, ceil and round of the float batch_size * N
batch_size_times_N ==
    [x \in {<<bs, N>> : bs \in BatchSizes, N \in 1..MaxN} |->
        LET S == DMulNat(x[1], x[2])
        IN [floor |-> DInt(S), ceil |-> DCeil(S), round |-> DRoundInt(S)]]
SizeOf(call) == Len(call.ix[1])
IsLastBatch(call) == call.batch_ix = call.n_batches - 1

C13_UpdatesGetBatchAndStepSize ==
    \A k \in DOMAIN update_args :
        IF i < options["start_stochastic"]
        THEN update_args[k] = [ix |-> None, ro |-> FullStep]
        ELSE /\ epoch_log # <<>>
             /\ update_args[k].ix = epoch_log[Len(epoch_log)].ix
             /\ update_args[k].ro =
                  step_size2((i - options["start_stochastic"])
                                \div n_batches_table[options["batch_size"]])

\* C13 witness: the three updates of an iteration of the second epoch, in a run
\* whose first iteration was a full-batch one
C13_Witness ==
    /\ Len(update_args) = 3
    /\ options["start_stochastic"] = 2
    /\ update_args[3].ro = step_size2(1)
    /\ update_args[3].ix # None
    /\ epoch_log[Len(epoch_log)].batch_ix > 0

\* C14: in a stochastic iteration, from before its first update on, every
\* index-aware node of the registry (Y, Tau, and AlphaZ, ThetaZ when registered)
\* holds the index set sampled in this iteration, which is the one the updates
\* get; a node that is not registered is told nothing.
C14_MiniBatchDefinedBeforeUpdates ==
    (pc \in {"drop", "update", "elbo"} /\ i >= options["start_stochastic"]) =>
        /\ epoch_log # <<>>
        /\ ix = epoch_log[Len(epoch_log)].ix
        /\ \A n \in {"Y", "Tau"} \cup registered : mini_batch[n] = ix
        /\ \A n \in IndexAware \ ({"Y", "Tau"} \cup registered) : mini_batch[n] = None
        /\ pc = "drop" => updated = <<>>

\* C14 witness: the second update of a stochastic iteration, AlphaZ and ThetaZ
\* registered, the mini-batch not the first of its epoch
C14_Witness ==
    /\ pc = "update"
    /\ Len(updated) = 1
    /\ registered = {"AlphaZ", "ThetaZ"}
    /\ i >= options["start_stochastic"]
    /\ epoch_log # <<>>
    /\ epoch_log[Len(epoch_log)].batch_ix = 1
    /\ mini_batch["ThetaZ"] = ix

\* C15: with forceiter false every ELBO checkpoint, the first one of the run
\* included, applies the convergence test; with forceiter true no checkpoint
\* applies it, the counter stays 1 and convergence is never declared.
C15_AssessedAtEveryCheckpoint ==
    [][(pc = "elbo" /\ IsElboIteration) =>
          IF options["forceiter"]
          THEN n_checks' = n_checks /\ convergence_token' = 1 /\ ~converged'
          ELSE n_checks' = n_checks + 1]_vars

RECURSIVE ExpectedUpdates(_, _, _)
ExpectedUpdates(sched, n, iter) ==
    IF n = 0 THEN <<>>
    ELSE IF sched[n] \in {"ThetaW", "ThetaZ"} /\ iter < options["start_sparsity"]
         THEN ExpectedUpdates(sched, n - 1, iter)
         ELSE Append(ExpectedUpdates(sched, n - 1, iter), sched[n])

\* C17: within an iteration the updates are issued one at a time in the order of
\* options['schedule'], after the pruning step and before the ELBO checkpoint;
\* ThetaW and ThetaZ are skipped in every iteration i < start_sparsity and
\* updated in every iteration i >= start_sparsity, and no other node is skipped.
C17_UpdatesFollowSchedule ==
    /\ pc = "drop" => updated = <<>>
    /\ pc = "update" =>
         updated = ExpectedUpdates(options["schedule"], sched_pos - 1, i)
    /\ pc = "elbo" =>
         updated = ExpectedUpdates(options["schedule"], Len(options["schedule"]), i)

\* C17 witness: the schedule ThetaZ, W, ThetaW, Z was gone through in iteration 1
\* with start_sparsity = 2
C17_Witness ==
    /\ pc = "elbo"
    /\ i = 1
    /\ options["start_sparsity"] = 2
    /\ updated = <<"W", "Z">>

\* row r of the ELBO ledger holds a record
IsFilled(ledger, r) == r \in DOMAIN ledger /\ ledger[r]["total"] # NaN

\* the most recent record before iteration iter; the iteration-0 record is row 0
RECURSIVE LastRecord(_, _)
LastRecord(ledger, iter) ==
    IF iter = 0 \/ IsFilled(ledger, iter - 1) THEN iter - 1
    ELSE LastRecord(ledger, iter - 1)

IsCheckpoint(r) ==
    r >= options["start_elbo"] /\ (r - options["start_elbo"]) % options["elbofreq"] = 0

\* C18: an ELBO record is computed at iteration i exactly when i >= start_elbo
\* and (i - start_elbo) mod elbofreq = 0; at every such checkpoint delta is the
\* record's total minus the total of the most recent record computed before it
\* (the iteration-0 record at the first checkpoint), which is a filled row.
C18_DeltaAgainstLastRecord ==
    [][pc = "elbo" =>
         /\ \A r \in 1..(i - 1) : r \in DOMAIN elbo => (IsFilled(elbo, r) <=> IsCheckpoint(r))
         /\ ~IsFilled(elbo, i)
         /\ IsFilled(elbo, 0)
         /\ IF IsCheckpoint(i)
            THEN /\ IsFilled(elbo, LastRecord(elbo, i))
                 /\ delta_elbo' # NaN
                 /\ IF i \in DOMAIN elbo'
                    THEN /\ IsFilled(elbo', i)
                         /\ delta_elbo' = FSub(elbo'[i]["total"],
                                               elbo[LastRecord(elbo, i)]["total"])
                    ELSE /\ converged'
                         /\ \E vals \in ElboOracle :
                              delta_elbo' = FSub(calculateELBO(vals)["total"],
                                                 elbo[LastRecord(elbo, i)]["total"])
            ELSE /\ elbo' = elbo
                 /\ delta_elbo' = delta_elbo]_vars

\* C18 witness: with start_elbo = 1 and elbofreq = 2 the second checkpoint, of
\* iteration 3, took its delta against the record of iteration 1, not that of
\* iteration 0
C18_Witness ==
    /\ pc = "drop"
    /\ i = 4
    /\ options["start_elbo"] = 1
    /\ options["elbofreq"] = 2
    /\ IsFilled(elbo, 1) /\ ~IsFilled(elbo, 2) /\ IsFilled(elbo, 3)
    /\ delta_elbo = FSub(elbo[3]["total"], elbo[1]["total"])
    /\ delta_elbo # FSub(elbo[3]["total"], elbo[0]["total"])

\* C19: in a run of iterate, precompute is called exactly once on every node,
\* before the first ELBO evaluation and before any update; the iteration-0 ELBO
\* record is computed with TauTrick false, and before the first update TauTrick
\* is set to the configured value options['Y_ELBO_TauTrick'].
C19_PrecomputeOnceThenTrick ==
    /\ [](pc = "ready" => \A n \in Nodes : precomputed[n] = 0)
    /\ [](pc = "precompute" =>
            /\ \A n \in Nodes : precomputed[n] = 1
            /\ ~TauTrick
            /\ ~IsFilled(elbo, 0)
            /\ updated = <<>>)
    /\ [](pc \in {"drop", "update", "elbo", "finish", "done", "exited"} =>
            /\ \A n \in Nodes : precomputed[n] = 1
            /\ TauTrick = options["Y_ELBO_TauTrick"])
    /\ [][/\ IsFilled(elbo', 0) /\ ~IsFilled(elbo, 0)
             => /\ ~TauTrick /\ updated = <<>>
                /\ \A n \in Nodes : precomputed[n] = 1
          /\ updated' # updated /\ updated' # <<>>
             => /\ TauTrick = options["Y_ELBO_TauTrick"]
                /\ IsFilled(elbo, 0)
                /\ \A n \in Nodes : precomputed[n] = 1]_vars

\* C19 witness: every node is precomputed and the flag, configured as true, is
\* false for the ELBO of iteration 0
C19_Witness ==
    /\ pc = "precompute"
    /\ options["Y_ELBO_TauTrick"]
    /\ ~TauTrick
    /\ \A n \in Nodes : precomputed[n] = 1

\* C20: TauD_Node.updateParameters changes only the node's own posterior Q: it
\* sets Q's shape to the a_pre cached at precompute and Q's rate to the newly
\* computed value, and leaves the prior P, the data and the mask stored by the Y
\* node and the expectations of W and Z unchanged.
C20_UpdateChangesOnlyQ ==
    [][tau_calls' # tau_calls =>
         /\ tau'.Q.a = Qa_pre(tau.P.a, blanket.Ymask)
         /\ tau'.Q.a = tau.Qa_pre
         /\ tau'.Q.b = Qb(tau.P.b, MaskedToZero(blanket.Ydata, blanket.Ymask),
                          blanket.Ymask, blanket.W, blanket.Z)
         /\ tau'.P = tau.P
         /\ tau'.Qa_pre = tau.Qa_pre
         /\ blanket'.Ymask = blanket.Ymask
         /\ blanket'.W = blanket.W
         /\ blanket'.Z = blanket.Z
         /\ blanket'.Ydata = blanket.Ydata]_vars

\* calculateELBO was called on a node whose Q has the parameters of its P
PosteriorIsPrior == tau # None /\ tau.elbo # None /\ tau.Q = tau.P

\* |x| * 2^k <= |y| for two doubles
MagnitudeLeq(x, k, y) ==
    \/ x.m = <<>>
    \/ /\ y.m # <<>>
       /\ LET lo == IF x.e + k <= y.e THEN x.e + k ELSE y.e
              mx == BShl(x.m, x.e + k - lo)
              my == BShl(y.m, y.e - lo)
          IN mx = my \/ BLess(mx, my)

\* the four sums of lines 101-102 for Q = P
ElboTerms ==
    {DTimes(Dbl(tau.P.a, 0), tau.log[tau.P.b]), tau.gammaln[tau.P.a],
     DTimes(Dbl(tau.P.a - 1, 0), tau.lnE), DTimes(Dbl(tau.P.b, 0), tau.E)}

C22_SeriesHaveSameLength ==
    pc = "done" =>
        /\ Length(train_stats["time"]) = Length(train_stats["number_factors"])
        /\ Length(train_stats["number_factors"]) = Length(train_stats["elbo"])

\* C23: when convergence is declared at the checkpoint of iteration i, the
\* training statistics still contain the ELBO record computed at iteration i,
\* total and per-node terms.
C23_ConvergedRecordKept ==
    (pc = "done" /\ converged) =>
        /\ i \in DOMAIN train_stats["elbo"]
        /\ train_stats["elbo"][i] # NaN
        /\ i \in DOMAIN train_stats["elbo_terms"]

\* the head of the loop is pc = "drop" in BayesNet.iterate and pc = "sample" in
\* StochasticBayesNet.iterate
LoopPc(p) == IF p = "sample" THEN "drop" ELSE p

\* what a run decides and records, but for the measured times
Orchestration ==
    <<LoopPc(pc), options, dim, factors, rf_arg, precomputed, TauTrick, i, sched_pos,
      updated, elbo, number_factors, convergence_token, converged, trained, r2_in,
      delta_elbo, n_checks, all_below, token0,
      IF train_stats = None THEN None
      ELSE <<train_stats["number_factors"], train_stats["elbo"], train_stats["elbo_terms"]>> >>

\* C24: with the same options, the same node behaviour and start_stochastic >=
\* maxiter, every step of StochasticBayesNet.iterate is the step BayesNet.iterate
\* takes from the same state (same pruning, same updates in the same order, same
\* ELBO checkpoints and convergence decisions, same end), each update getting
\* step size 1 and no mini-batch, and a step of one is possible exactly when the
\* step of the other is.
C24_SameStepsAsBayesNet ==
    /\ [][/\ pc = "ready" =>
               \E o \in {Orchestration'} : ENABLED (iterate_begin /\ Orchestration' = o)
          /\ pc = "drop" =>
               \E o \in {Orchestration'} : ENABLED (iterate_drop /\ Orchestration' = o)
          /\ pc = "update" =>
               /\ \E o \in {Orchestration'} : ENABLED (iterate_update /\ Orchestration' = o)
               /\ \A k \in DOMAIN update_args' :
                      update_args'[k] = [ix |-> None, ro |-> FullStep]
               /\ Len(update_args') = Len(updated')
          /\ pc = "elbo" =>
               \E o \in {Orchestration'} : ENABLED (iterate_elbo /\ Orchestration' = o)
          /\ pc = "finish" =>
               \E o \in {Orchestration'} : ENABLED (iterate_finish /\ Orchestration' = o)
          /\ (pc = "sample" /\ pc' = "drop") =>
               /\ Orchestration' = Orchestration
               /\ i < options["maxiter"]
               /\ ix' = None /\ ro' = FullStep /\ mini_batch' = mini_batch
          /\ (pc = "sample" /\ pc' # "drop") =>
               /\ i >= options["maxiter"] /\ pc' = "done" /\ trained'
               /\ train_stats'["elbo"] = [r \in DOMAIN elbo |-> elbo[r]["total"]]
               /\ train_stats'["number_factors"] = number_factors
               /\ \E o \in {<<dim', elbo', number_factors', i', converged'>>} :
                      o = <<dim, elbo, number_factors, i, converged>>]_vars
    /\ [](/\ pc = "ready" => (ENABLED iterate_begin <=> ENABLED sto_iterate_begin)
          /\ pc = "drop" => (ENABLED iterate_drop <=> ENABLED sto_iterate_drop)
          /\ pc = "update" => (ENABLED iterate_update <=> ENABLED sto_iterate_update)
          /\ pc = "elbo" => (ENABLED iterate_elbo <=> ENABLED sto_iterate_elbo)
          /\ pc = "finish" => (ENABLED iterate_finish <=> ENABLED sto_iterate_finish))
    /\ [](pc = "sample" => (ENABLED sto_iterate_finish <=> i >= options["maxiter"]))

\* C24 witness: a run of StochasticBayesNet.iterate with start_stochastic >=
\* maxiter pruned a factor and ended on convergence
C24_Witness ==
    /\ pc = "done"
    /\ converged
    /\ options["start_stochastic"] >= options["maxiter"]
    /\ dim.K = 1
    /\ number_factors[0] = Fl(2)

====
